---------------------------- MODULE Spec2Model ----------------------------
(***************************************************************************)
(* The circuit breaker of sinsuren/go-breaker (package circuit_breaker):   *)
(* CircuitBreaker.Execute, recordResult and the sliding window with its    *)
(* incremental failure / slow-call counters, run by several concurrent     *)
(* callers (goroutines) over one breaker instance and one monotonic clock. *)
(***************************************************************************)
EXTENDS Integers, Sequences, FiniteSets

\* ------------------------------------------------------------------ bounds
MaxCalls == 3       \* calls to Execute started in one behaviour
MaxTime == 3        \* last instant of the clock (it starts at 1)

\* --------------------------------------------------------------- constants
Closed == "CLOSED"
Open == "OPEN"
HalfOpen == "HALF_OPEN"
COUNT_BASED == "COUNT_BASED"
TIME_BASED == "TIME_BASED"

\* The values an error can take: nil, the action's own error, and the two
\* rejection errors Execute builds itself.
Nil == "nil"
ActionErr == "failure"
ErrOpen == "circuit breaker is in opened state"
ErrHalfOpen == "circuit breaker half-open, no more calls allowed"

\* The callers (goroutines) that share the breaker.
Procs == {1, 2}
NoOne == 0          \* the mutex is free
NoResult == "none"  \* Execute has not returned

\* The configurations a breaker is constructed with (Config is copied in by
\* NewCircuitBreaker, unvalidated, and never written afterwards). Durations
\* and the time-based SlidingWindowSize are in clock instants.
Configs ==
    [ FailureRateThreshold : {50},
      SlowCallRateThreshold : {50},
      MinimumNumberOfCalls : {1, 2},
      PermittedNumberOfCallsInHalfOpenState : {0, 1, 2},
      WaitDurationInOpenState : {1},
      SlidingWindowSize : {0, 1, 2},
      SlidingWindowType : {COUNT_BASED, TIME_BASED},
      SlowCallDurationThreshold : {1} ]

VARIABLES
    config,           \* cb.config
    state,            \* cb.state.state
    mu,               \* cb.mu: the caller holding it, or NoOne
    halfOpenCalls,    \* cb.halfOpenCalls
    lastFailureTime,  \* cb.lastFailureTime
    requests,         \* cb.requests, oldest first
    failureCount,     \* cb.failureCount
    slowCallCount,    \* cb.slowCallCount
    now,              \* the clock read by time.Now / time.Since
    pc,               \* where each caller is in Execute
    start,            \* Execute's local start
    err,              \* Execute's local err
    isSlow,           \* Execute's local isSlow
    result,           \* what the caller's Execute returned, until the caller takes it
    invoked,          \* how often the caller's current call ran its action
    calls,            \* calls to Execute started so far
    episodeAdmitted,  \* history: calls admitted in the current Half-Open episode
    probe             \* history: the caller's running call is one of them

vars == <<config, state, mu, halfOpenCalls, lastFailureTime, requests,
          failureCount, slowCallCount, now, pc, start, err, isSlow, result,
          invoked, calls, episodeAdmitted, probe>>

\* ------------------------------------------------------- the sliding window
\* The window as the helpers see it: the list and its two counters. spin is
\* set when a pruning loop can never leave (see enforceCountBasedWindow).
Window == [requests |-> requests, failureCount |-> failureCount,
           slowCallCount |-> slowCallCount, spin |-> FALSE]

\* removeFrontRequest without the else: a failed and slow record takes one
\* off both counters.
removeFrontRequestBoth(w) ==
    IF w.requests # <<>>
    THEN LET entry == Head(w.requests) IN
         [w EXCEPT
            !.failureCount = IF entry.failed THEN @ - 1 ELSE @,
            !.slowCallCount = IF entry.slow THEN @ - 1 ELSE @,
            !.requests = Tail(@)]
    ELSE w

removeFrontRequest(w) ==
    IF w.requests # <<>>
    THEN LET entry == Head(w.requests) IN
         [w EXCEPT
            !.failureCount = IF entry.failed THEN @ - 1 ELSE @,
            !.slowCallCount = IF ~entry.failed /\ entry.slow THEN @ - 1 ELSE @,
            !.requests = Tail(@)]
    ELSE w

\* enforceCountBasedWindow pruning only above the size (> for >=).
RECURSIVE enforceCountBasedWindowOffByOne(_, _)
enforceCountBasedWindowOffByOne(w, cfg) ==
    IF Len(w.requests) > cfg.SlidingWindowSize
    THEN IF w.requests # <<>>
         THEN enforceCountBasedWindowOffByOne(removeFrontRequest(w), cfg)
         ELSE [w EXCEPT !.spin = TRUE]
    ELSE w

\* for cb.requests.Len() >= SlidingWindowSize { if front != nil { remove } }
\* With the list empty and the condition still true the body changes nothing
\* and the loop never ends: spin.
RECURSIVE enforceCountBasedWindow(_, _)
enforceCountBasedWindow(w, cfg) ==
    IF Len(w.requests) >= cfg.SlidingWindowSize
    THEN IF w.requests # <<>>
         THEN enforceCountBasedWindow(removeFrontRequest(w), cfg)
         ELSE [w EXCEPT !.spin = TRUE]
    ELSE w

\* Before taken as 'at or before'.
BeforeOrAt(t, u) == t <= u

\* entry.executionTime.Before(expirationTime) is executionTime < expirationTime
Before(t, u) == t < u

\* enforceTimeBasedWindow with an if for the loop: at most one record goes.
enforceTimeBasedWindowOnce(w, cfg, t) ==
    LET expirationTime == t - cfg.SlidingWindowSize IN
    IF Len(w.requests) > 0
    THEN IF ~Before(Head(w.requests).executionTime, expirationTime)
         THEN w
         ELSE removeFrontRequest(w)
    ELSE w

RECURSIVE enforceTimeBasedWindow(_, _, _)
enforceTimeBasedWindow(w, cfg, t) ==
    LET expirationTime == t - cfg.SlidingWindowSize IN
    IF Len(w.requests) > 0
    THEN IF ~Before(Head(w.requests).executionTime, expirationTime)
         THEN w
         ELSE enforceTimeBasedWindow(removeFrontRequest(w), cfg, t)
    ELSE w

cleanupOldRequests(w, cfg, t) ==
    CASE cfg.SlidingWindowType = COUNT_BASED -> enforceCountBasedWindow(w, cfg)
      [] cfg.SlidingWindowType = TIME_BASED -> enforceTimeBasedWindow(w, cfg, t)
      [] OTHER -> w

\* addRequest wiping the history (cb.requests.Init() and the counters) when
\* the outcome it adds is the one that closes a Half-Open breaker.
addRequestWiping(w, cfg, failed, slow, t) ==
    LET c == cleanupOldRequests(w, cfg, t) IN
    IF c.spin THEN c
    ELSE IF /\ state = HalfOpen /\ ~failed /\ ~slow
            /\ halfOpenCalls >= cfg.PermittedNumberOfCallsInHalfOpenState
    THEN [c EXCEPT !.requests = <<>>, !.failureCount = 0, !.slowCallCount = 0]
    ELSE [c EXCEPT
            !.requests = Append(@, [failed |-> failed, slow |-> slow,
                                    executionTime |-> t]),
            !.failureCount = IF failed THEN @ + 1 ELSE @,
            !.slowCallCount = IF ~failed /\ slow THEN @ + 1 ELSE @]

addRequest(w, cfg, failed, slow, t) ==
    LET c == cleanupOldRequests(w, cfg, t) IN
    IF c.spin THEN c
    ELSE [c EXCEPT
            !.requests = Append(@, [failed |-> failed, slow |-> slow,
                                    executionTime |-> t]),
            !.failureCount = IF failed THEN @ + 1 ELSE @,
            !.slowCallCount = IF ~failed /\ slow THEN @ + 1 ELSE @]

\* getFailureRate without its test for the empty list: it divides by the
\* length whatever it is.
getFailureRateUnguarded(w) ==
    [num |-> w.failureCount * 100, den |-> Len(w.requests)]

\* A rate is the exact quotient num / den (den > 0), in percent.
getFailureRate(w) ==
    IF Len(w.requests) = 0 THEN [num |-> 0, den |-> 1]
    ELSE [num |-> w.failureCount * 100, den |-> Len(w.requests)]

getSlowCallRate(w) ==
    IF Len(w.requests) = 0 THEN [num |-> 0, den |-> 1]
    ELSE [num |-> w.slowCallCount * 100, den |-> Len(w.requests)]

\* rate >= threshold
RateAtLeast(rate, threshold) == rate.num >= threshold * rate.den

\* time.Since(t)
Since(t) == now - t

\* ------------------------------------------------------------------- Init
\* NewCircuitBreaker: Closed, an empty list, every other field zero.
Init ==
    /\ config \in Configs
    /\ state = Closed
    /\ mu = NoOne
    /\ halfOpenCalls = 0
    /\ lastFailureTime = 0
    /\ requests = <<>>
    /\ failureCount = 0
    /\ slowCallCount = 0
    /\ now = 1
    /\ pc = [p \in Procs |-> "idle"]
    /\ start = [p \in Procs |-> 0]
    /\ err = [p \in Procs |-> Nil]
    /\ isSlow = [p \in Procs |-> FALSE]
    /\ result = [p \in Procs |-> NoResult]
    /\ invoked = [p \in Procs |-> 0]
    /\ calls = 0
    /\ episodeAdmitted = 0
    /\ probe = [p \in Procs |-> FALSE]

\* ---------------------------------------------------------------- actions
\* The clock advances (it is monotonic: time.Now carries a monotonic reading).
Tick ==
    /\ now < MaxTime
    /\ now' = now + 1
    /\ UNCHANGED <<config, state, mu, halfOpenCalls, lastFailureTime, requests,
                   failureCount, slowCallCount, pc, start, err, isSlow, result,
                   invoked, calls, episodeAdmitted, probe>>

\* Admission with the quota test off by one (> for >=).
AdmissionOffByOne(st, hoc, lft, cfg) ==
    LET toHalfOpen == st = Open /\ Since(lft) >= cfg.WaitDurationInOpenState
        st1 == IF toHalfOpen THEN HalfOpen ELSE st
        hoc1 == IF toHalfOpen THEN 0 ELSE hoc
    IN  IF st1 = Open
        THEN [state |-> st1, halfOpenCalls |-> hoc1, reject |-> ErrOpen]
        ELSE IF st1 = HalfOpen
        THEN IF hoc1 > cfg.PermittedNumberOfCallsInHalfOpenState
             THEN [state |-> st1, halfOpenCalls |-> hoc1, reject |-> ErrHalfOpen]
             ELSE [state |-> st1, halfOpenCalls |-> hoc1 + 1, reject |-> Nil]
        ELSE [state |-> st1, halfOpenCalls |-> hoc1, reject |-> Nil]

\* Admission that leaves Open without looking at the time elapsed.
AdmissionNoWait(st, hoc, lft, cfg) ==
    LET toHalfOpen == st = Open
        st1 == IF toHalfOpen THEN HalfOpen ELSE st
        hoc1 == IF toHalfOpen THEN 0 ELSE hoc
    IN  IF st1 = Open
        THEN [state |-> st1, halfOpenCalls |-> hoc1, reject |-> ErrOpen]
        ELSE IF st1 = HalfOpen
        THEN IF hoc1 >= cfg.PermittedNumberOfCallsInHalfOpenState
             THEN [state |-> st1, halfOpenCalls |-> hoc1, reject |-> ErrHalfOpen]
             ELSE [state |-> st1, halfOpenCalls |-> hoc1 + 1, reject |-> Nil]
        ELSE [state |-> st1, halfOpenCalls |-> hoc1, reject |-> Nil]

\* The admission check of Execute, lines 113-131, as a function of the state:
\* the lifecycle state and halfOpenCalls it leaves, and the rejection error
\* (Nil when the call is admitted).
Admission(st, hoc, lft, cfg) ==
    LET toHalfOpen == st = Open /\ Since(lft) >= cfg.WaitDurationInOpenState
        st1 == IF toHalfOpen THEN HalfOpen ELSE st
        hoc1 == IF toHalfOpen THEN 0 ELSE hoc
    IN  IF st1 = Open
        THEN [state |-> st1, halfOpenCalls |-> hoc1, reject |-> ErrOpen]
        ELSE IF st1 = HalfOpen
        THEN IF hoc1 >= cfg.PermittedNumberOfCallsInHalfOpenState
             THEN [state |-> st1, halfOpenCalls |-> hoc1, reject |-> ErrHalfOpen]
             ELSE [state |-> st1, halfOpenCalls |-> hoc1 + 1, reject |-> Nil]
        ELSE [state |-> st1, halfOpenCalls |-> hoc1, reject |-> Nil]

\* Execute going on with cb.mu still locked (an Unlock left out).
StillLocked(p) == p

\* Where cb.mu is left when Execute leaves its admission check: every path
\* unlocks (lines 121, 127, 133).
UnlockAfterAdmission(p) == NoOne

\* Execute, lines 106-135: lock, decide, unlock, and either return the
\* rejection or go on to the action. Lock blocks while another caller holds
\* cb.mu.
Execute(p) ==
    /\ pc[p] = "idle"
    /\ calls < MaxCalls
    /\ mu = NoOne
    /\ calls' = calls + 1
    /\ LET a == Admission(state, halfOpenCalls, lastFailureTime, config) IN
       /\ state' = a.state
       /\ halfOpenCalls' = a.halfOpenCalls
       /\ mu' = UnlockAfterAdmission(p)
       /\ episodeAdmitted' =
             IF a.state # HalfOpen THEN 0
             ELSE (IF state = Open THEN 0 ELSE episodeAdmitted)
                  + (IF a.reject = Nil THEN 1 ELSE 0)
       /\ probe' = [probe EXCEPT ![p] = a.state = HalfOpen /\ a.reject = Nil]
       /\ IF a.reject = Nil
          THEN /\ pc' = [pc EXCEPT ![p] = "action"]
               /\ start' = [start EXCEPT ![p] = now]
               /\ UNCHANGED result
          ELSE /\ pc' = [pc EXCEPT ![p] = "returned"]
               /\ result' = [result EXCEPT ![p] = a.reject]
               /\ UNCHANGED start
    /\ UNCHANGED <<config, lastFailureTime, requests, failureCount,
                   slowCallCount, now, err, isSlow, invoked>>

\* Execute, lines 136-140: the action runs and returns e; the call was slow
\* iff it took at least SlowCallDurationThreshold.
ActionReturn(p, e) ==
    /\ pc[p] = "action"
    /\ err' = [err EXCEPT ![p] = e]
    /\ isSlow' = [isSlow EXCEPT ![p] = Since(start[p]) >= config.SlowCallDurationThreshold]
    /\ invoked' = [invoked EXCEPT ![p] = @ + 1]
    /\ start' = [start EXCEPT ![p] = 0]
    /\ pc' = [pc EXCEPT ![p] = "recordResult"]
    /\ UNCHANGED <<config, state, mu, halfOpenCalls, lastFailureTime, requests,
                   failureCount, slowCallCount, now, result, calls,
                   episodeAdmitted, probe>>

\* Transition with the Half-Open quota test off by one (> for >=).
TransitionQuotaOffByOne(st, hoc, lft, w, cfg, failed, slow) ==
    LET failureRate == getFailureRate(w)
        slowCallRate == getSlowCallRate(w)
        same == [state |-> st, halfOpenCalls |-> hoc, lastFailureTime |-> lft]
    IN  CASE st = Closed ->
               IF /\ Len(w.requests) >= cfg.MinimumNumberOfCalls
                  /\ \/ RateAtLeast(failureRate, cfg.FailureRateThreshold)
                     \/ RateAtLeast(slowCallRate, cfg.SlowCallRateThreshold)
               THEN [same EXCEPT !.state = Open, !.lastFailureTime = now]
               ELSE same
          [] st = Open ->
               IF Since(lft) >= cfg.WaitDurationInOpenState
               THEN [same EXCEPT !.state = HalfOpen, !.halfOpenCalls = 0]
               ELSE same
          [] st = HalfOpen ->
               IF failed \/ slow
               THEN [same EXCEPT !.state = Open, !.halfOpenCalls = 0,
                                 !.lastFailureTime = now]
               ELSE IF hoc > cfg.PermittedNumberOfCallsInHalfOpenState
                    THEN [same EXCEPT !.state = Closed, !.halfOpenCalls = 0]
                    ELSE same

\* Transition that opens on the rates alone, MinimumNumberOfCalls ignored.
TransitionNoMinimum(st, hoc, lft, w, cfg, failed, slow) ==
    LET failureRate == getFailureRate(w)
        slowCallRate == getSlowCallRate(w)
        same == [state |-> st, halfOpenCalls |-> hoc, lastFailureTime |-> lft]
    IN  CASE st = Closed ->
               IF \/ RateAtLeast(failureRate, cfg.FailureRateThreshold)
                  \/ RateAtLeast(slowCallRate, cfg.SlowCallRateThreshold)
               THEN [same EXCEPT !.state = Open, !.lastFailureTime = now]
               ELSE same
          [] st = Open ->
               IF Since(lft) >= cfg.WaitDurationInOpenState
               THEN [same EXCEPT !.state = HalfOpen, !.halfOpenCalls = 0]
               ELSE same
          [] st = HalfOpen ->
               IF failed \/ slow
               THEN [same EXCEPT !.state = Open, !.halfOpenCalls = 0,
                                 !.lastFailureTime = now]
               ELSE IF hoc >= cfg.PermittedNumberOfCallsInHalfOpenState
                    THEN [same EXCEPT !.state = Closed, !.halfOpenCalls = 0]
                    ELSE same

\* Transition that sends a Half-Open breaker back to Open on a failure only,
\* not on a slow call.
TransitionSlowIgnored(st, hoc, lft, w, cfg, failed, slow) ==
    LET failureRate == getFailureRate(w)
        slowCallRate == getSlowCallRate(w)
        same == [state |-> st, halfOpenCalls |-> hoc, lastFailureTime |-> lft]
    IN  CASE st = Closed ->
               IF /\ Len(w.requests) >= cfg.MinimumNumberOfCalls
                  /\ \/ RateAtLeast(failureRate, cfg.FailureRateThreshold)
                     \/ RateAtLeast(slowCallRate, cfg.SlowCallRateThreshold)
               THEN [same EXCEPT !.state = Open, !.lastFailureTime = now]
               ELSE same
          [] st = Open ->
               IF Since(lft) >= cfg.WaitDurationInOpenState
               THEN [same EXCEPT !.state = HalfOpen, !.halfOpenCalls = 0]
               ELSE same
          [] st = HalfOpen ->
               IF failed
               THEN [same EXCEPT !.state = Open, !.halfOpenCalls = 0,
                                 !.lastFailureTime = now]
               ELSE IF hoc >= cfg.PermittedNumberOfCallsInHalfOpenState
                    THEN [same EXCEPT !.state = Closed, !.halfOpenCalls = 0]
                    ELSE same

\* Transition that leaves halfOpenCalls as it is when a failed or slow probe
\* sends the breaker back to Open.
TransitionNoReset(st, hoc, lft, w, cfg, failed, slow) ==
    LET failureRate == getFailureRate(w)
        slowCallRate == getSlowCallRate(w)
        same == [state |-> st, halfOpenCalls |-> hoc, lastFailureTime |-> lft]
    IN  CASE st = Closed ->
               IF /\ Len(w.requests) >= cfg.MinimumNumberOfCalls
                  /\ \/ RateAtLeast(failureRate, cfg.FailureRateThreshold)
                     \/ RateAtLeast(slowCallRate, cfg.SlowCallRateThreshold)
               THEN [same EXCEPT !.state = Open, !.lastFailureTime = now]
               ELSE same
          [] st = Open ->
               IF Since(lft) >= cfg.WaitDurationInOpenState
               THEN [same EXCEPT !.state = HalfOpen, !.halfOpenCalls = 0]
               ELSE same
          [] st = HalfOpen ->
               IF failed \/ slow
               THEN [same EXCEPT !.state = Open, !.lastFailureTime = now]
               ELSE IF hoc >= cfg.PermittedNumberOfCallsInHalfOpenState
                    THEN [same EXCEPT !.state = Closed, !.halfOpenCalls = 0]
                    ELSE same

\* Transition whose Open case waits longer than the admission check does
\* (> for >=).
TransitionWaitStrict(st, hoc, lft, w, cfg, failed, slow) ==
    LET failureRate == getFailureRate(w)
        slowCallRate == getSlowCallRate(w)
        same == [state |-> st, halfOpenCalls |-> hoc, lastFailureTime |-> lft]
    IN  CASE st = Closed ->
               IF /\ Len(w.requests) >= cfg.MinimumNumberOfCalls
                  /\ \/ RateAtLeast(failureRate, cfg.FailureRateThreshold)
                     \/ RateAtLeast(slowCallRate, cfg.SlowCallRateThreshold)
               THEN [same EXCEPT !.state = Open, !.lastFailureTime = now]
               ELSE same
          [] st = Open ->
               IF Since(lft) > cfg.WaitDurationInOpenState
               THEN [same EXCEPT !.state = HalfOpen, !.halfOpenCalls = 0]
               ELSE same
          [] st = HalfOpen ->
               IF failed \/ slow
               THEN [same EXCEPT !.state = Open, !.halfOpenCalls = 0,
                                 !.lastFailureTime = now]
               ELSE IF hoc >= cfg.PermittedNumberOfCallsInHalfOpenState
                    THEN [same EXCEPT !.state = Closed, !.halfOpenCalls = 0]
                    ELSE same

\* Transition that opens a Closed breaker only on an outcome that itself
\* failed or was slow.
TransitionOnBadOutcomeOnly(st, hoc, lft, w, cfg, failed, slow) ==
    LET failureRate == getFailureRate(w)
        slowCallRate == getSlowCallRate(w)
        same == [state |-> st, halfOpenCalls |-> hoc, lastFailureTime |-> lft]
    IN  CASE st = Closed ->
               IF /\ failed \/ slow
                  /\ Len(w.requests) >= cfg.MinimumNumberOfCalls
                  /\ \/ RateAtLeast(failureRate, cfg.FailureRateThreshold)
                     \/ RateAtLeast(slowCallRate, cfg.SlowCallRateThreshold)
               THEN [same EXCEPT !.state = Open, !.lastFailureTime = now]
               ELSE same
          [] st = Open ->
               IF Since(lft) >= cfg.WaitDurationInOpenState
               THEN [same EXCEPT !.state = HalfOpen, !.halfOpenCalls = 0]
               ELSE same
          [] st = HalfOpen ->
               IF failed \/ slow
               THEN [same EXCEPT !.state = Open, !.halfOpenCalls = 0,
                                 !.lastFailureTime = now]
               ELSE IF hoc >= cfg.PermittedNumberOfCallsInHalfOpenState
                    THEN [same EXCEPT !.state = Closed, !.halfOpenCalls = 0]
                    ELSE same

\* The transition policy of recordResult, lines 154-188, on the updated
\* window w: the lifecycle state, halfOpenCalls and lastFailureTime it leaves.
Transition(st, hoc, lft, w, cfg, failed, slow) ==
    LET failureRate == getFailureRate(w)
        slowCallRate == getSlowCallRate(w)
        same == [state |-> st, halfOpenCalls |-> hoc, lastFailureTime |-> lft]
    IN  CASE st = Closed ->
               IF /\ Len(w.requests) >= cfg.MinimumNumberOfCalls
                  /\ \/ RateAtLeast(failureRate, cfg.FailureRateThreshold)
                     \/ RateAtLeast(slowCallRate, cfg.SlowCallRateThreshold)
               THEN [same EXCEPT !.state = Open, !.lastFailureTime = now]
               ELSE same
          [] st = Open ->
               IF Since(lft) >= cfg.WaitDurationInOpenState
               THEN [same EXCEPT !.state = HalfOpen, !.halfOpenCalls = 0]
               ELSE same
          [] st = HalfOpen ->
               IF failed \/ slow
               THEN [same EXCEPT !.state = Open, !.halfOpenCalls = 0,
                                 !.lastFailureTime = now]
               ELSE IF hoc >= cfg.PermittedNumberOfCallsInHalfOpenState
                    THEN [same EXCEPT !.state = Closed, !.halfOpenCalls = 0]
                    ELSE same

\* Execute swallowing the action's error.
ReturnNil(e) == Nil

\* What Execute returns once its action ran (line 145).
ReturnOf(e) == e

\* recordResult, lines 149-189, and Execute's return of err (line 145). Lock
\* blocks while another caller holds cb.mu; the deferred Unlock runs on return.
recordResult(p) ==
    /\ pc[p] = "recordResult"
    /\ mu = NoOne
    /\ LET failed == err[p] # Nil
           w == addRequest(Window, config, failed, isSlow[p], now)
           t == Transition(state, halfOpenCalls, lastFailureTime, w, config,
                           failed, isSlow[p])
       IN  /\ ~w.spin
           /\ requests' = w.requests
           /\ failureCount' = w.failureCount
           /\ slowCallCount' = w.slowCallCount
           /\ state' = t.state
           /\ halfOpenCalls' = t.halfOpenCalls
           /\ lastFailureTime' = t.lastFailureTime
           /\ episodeAdmitted' =
                 IF state = HalfOpen /\ t.state = HalfOpen
                 THEN episodeAdmitted ELSE 0
           /\ probe' =
                 IF state = HalfOpen /\ t.state = HalfOpen
                 THEN [probe EXCEPT ![p] = FALSE]
                 ELSE [q \in Procs |-> FALSE]
    /\ mu' = NoOne
    /\ result' = [result EXCEPT ![p] = ReturnOf(err[p])]
    /\ err' = [err EXCEPT ![p] = Nil]
    /\ isSlow' = [isSlow EXCEPT ![p] = FALSE]
    /\ pc' = [pc EXCEPT ![p] = "returned"]
    /\ UNCHANGED <<config, now, start, invoked, calls>>

\* recordResult when the pruning loop never ends: the caller stays in the loop
\* with cb.mu held, the list emptied by the iterations that did remove.
recordResultSpin(p) ==
    /\ pc[p] = "recordResult"
    /\ mu = NoOne
    /\ LET w == addRequest(Window, config, err[p] # Nil, isSlow[p], now) IN
       /\ w.spin
       /\ requests' = w.requests
       /\ failureCount' = w.failureCount
       /\ slowCallCount' = w.slowCallCount
    /\ pc' = [pc EXCEPT ![p] = "spinning"]
    /\ mu' = p
    /\ UNCHANGED <<config, state, halfOpenCalls, lastFailureTime, now,
                   start, err, isSlow, result, invoked, calls, episodeAdmitted,
                   probe>>

\* The caller has the value Execute returned and is free to call again.
Return(p) ==
    /\ pc[p] = "returned"
    /\ pc' = [pc EXCEPT ![p] = "idle"]
    /\ result' = [result EXCEPT ![p] = NoResult]
    /\ invoked' = [invoked EXCEPT ![p] = 0]
    /\ UNCHANGED <<config, state, mu, halfOpenCalls, lastFailureTime, requests,
                   failureCount, slowCallCount, now, start, err, isSlow, calls,
                   episodeAdmitted, probe>>

Next ==
    \/ Tick
    \/ \E p \in Procs : Execute(p)
    \/ \E p \in Procs : \E e \in {Nil, ActionErr} : ActionReturn(p, e)
    \/ \E p \in Procs : recordResult(p)
    \/ \E p \in Procs : recordResultSpin(p)
    \/ \E p \in Procs : Return(p)

Spec == Init /\ [][Next]_vars

\* Sequential callers: a call to Execute starts only after every other call
\* has returned, so at most one caller is ever inside Execute.
Sequential ==
    \A p, q \in Procs :
        p # q => pc[p] \in {"idle", "returned"} \/ pc[q] \in {"idle", "returned"}

SeqNext ==
    \/ Tick /\ Sequential'
    \/ \E p \in Procs : Execute(p) /\ Sequential'
    \/ \E p \in Procs : \E e \in {Nil, ActionErr} : ActionReturn(p, e) /\ Sequential'
    \/ \E p \in Procs : recordResult(p) /\ Sequential'
    \/ \E p \in Procs : recordResultSpin(p) /\ Sequential'
    \/ \E p \in Procs : Return(p) /\ Sequential'

SeqSpec == Init /\ [][SeqNext]_vars

\* The scheduling the code can count on: an action that was called returns
\* (the caller's own obligation), and a caller waiting at cb.mu.Lock() in
\* recordResult gets the mutex once it is free (Go's sync.Mutex hands the lock
\* to a waiter that has been starved).
Fairness ==
    \A p \in Procs :
        /\ WF_vars(\E e \in {Nil, ActionErr} : ActionReturn(p, e))
        /\ WF_vars(recordResult(p))

\* The breakers the fair behaviours are explored for: those built with a
\* probe quota of at least 1 that open on the first bad outcome, with a
\* count-based window (the strategy whose pruning loop may not end).
FairInit ==
    /\ Init
    /\ config.PermittedNumberOfCallsInHalfOpenState >= 1
    /\ config.MinimumNumberOfCalls = 1
    /\ config.SlidingWindowType = COUNT_BASED

FairSpec == FairInit /\ [][Next]_vars /\ Fairness

\* ------------------------------------------------------------- properties
\* Steps, as the properties below name them.
Permitted == config.PermittedNumberOfCallsInHalfOpenState
Wait == config.WaitDurationInOpenState

\* Caller p's call to Execute passes its admission check in this step.
ExecuteStep(p) == pc[p] = "idle" /\ pc'[p] # "idle"
\* Caller p's recordResult runs, and Execute returns, in this step.
RecordStep(p) == pc[p] = "recordResult" /\ pc'[p] = "returned"
\* In this step Execute returns rejection e to p without running the action.
RejectedWith(p, e) ==
    pc'[p] = "returned" /\ result'[p] = e /\ invoked'[p] = 0
\* In this step p's call is admitted: it goes on to its action.
Admitted(p) == pc'[p] = "action"
\* The calls admitted so far in the Half-Open episode an admission check is
\* made in: none yet when this very check opens the episode.
AdmittedBefore == IF state = HalfOpen THEN episodeAdmitted ELSE 0

\* C1: in a Half-Open episode at most Permitted calls are admitted, whatever
\* the interleaving; a call made in the episode once Permitted calls were
\* admitted is rejected with the half-open-limit error, its action not run.
C1_HalfOpenAdmitsAtMostPermitted ==
    [][ /\ state' = HalfOpen => episodeAdmitted' <= Permitted
        /\ \A p \in Procs :
             (ExecuteStep(p) /\ state' = HalfOpen /\ AdmittedBefore >= Permitted)
                => RejectedWith(p, ErrHalfOpen) /\ episodeAdmitted' = AdmittedBefore
      ]_vars

\* A probe is still running when another caller is turned away at the limit.
C1_Witness ==
    /\ state = HalfOpen
    /\ Permitted >= 1
    /\ episodeAdmitted = Permitted
    /\ \E p, q \in Procs :
         /\ pc[p] = "action"
         /\ pc[q] = "returned" /\ result[q] = ErrHalfOpen /\ invoked[q] = 0

\* C2: an admission check that finds the state Open with less than
\* WaitDurationInOpenState elapsed since the last move into Open returns the
\* open rejection, never runs the action and records nothing.
C2_OpenRejectsAndRecordsNothing ==
    [][ \A p \in Procs :
          (ExecuteStep(p) /\ state = Open /\ Since(lastFailureTime) < Wait)
             => /\ RejectedWith(p, ErrOpen)
                /\ UNCHANGED <<requests, failureCount, slowCallCount, state,
                               lastFailureTime, halfOpenCalls>>
      ]_vars

C2_Witness ==
    /\ state = Open
    /\ Since(lastFailureTime) < Wait
    /\ \E p \in Procs :
         pc[p] = "returned" /\ result[p] = ErrOpen /\ invoked[p] = 0

\* What the recovery cycle asks of one step of a sequential caller p: the
\* call that finds the wait elapsed moves the breaker to Half-Open, is
\* admitted and is the first of the quota; a call of the episode that neither
\* failed nor was slow closes the breaker, halfOpenCalls back to 0, exactly
\* when it is the Permitted-th one, and leaves it Half-Open before that.
RecoveryStep(p) ==
    /\ (ExecuteStep(p) /\ state = Open /\ Since(lastFailureTime) >= Wait)
          => /\ state' = HalfOpen
             /\ Admitted(p)
             /\ halfOpenCalls' = 1
             /\ episodeAdmitted' = 1
    /\ (RecordStep(p) /\ state = HalfOpen /\ err[p] = Nil /\ ~isSlow[p])
          => IF episodeAdmitted = Permitted
             THEN state' = Closed /\ halfOpenCalls' = 0
             ELSE state' = HalfOpen /\ episodeAdmitted < Permitted

\* C3 as stated: with sequential callers, for every configuration, the call
\* after the wait moves Open to Half-Open, is admitted and counts toward the
\* quota, and the Permitted-th consecutive good call closes the breaker.
C3_RecoveryCycleAsStated ==
    [][ \A p \in Procs : RecoveryStep(p) ]_vars

\* C3, amended: the same, for PermittedNumberOfCallsInHalfOpenState >= 1.
C3_RecoveryCycle ==
    [][ Permitted >= 1 => \A p \in Procs : RecoveryStep(p) ]_vars

\* The breaker was Open once (lastFailureTime is stamped) and the second of
\* two good probe calls has just closed it.
C3_Witness ==
    /\ Permitted = 2
    /\ state = Closed
    /\ halfOpenCalls = 0
    /\ lastFailureTime > 0
    /\ calls = 3
    /\ \E p \in Procs : pc[p] = "returned" /\ result[p] = Nil /\ invoked[p] = 1

\* The Closed -> Open condition on the window a recording step leaves:
\* 100 * count / length >= threshold, without the division.
OpenCondition ==
    /\ Len(requests') >= config.MinimumNumberOfCalls
    /\ \/ 100 * failureCount' >= config.FailureRateThreshold * Len(requests')
       \/ 100 * slowCallCount' >= config.SlowCallRateThreshold * Len(requests')

\* C4: a recording step that finds the state Closed moves it to Open,
\* stamping lastFailureTime with the current time, if and only if the updated
\* window holds at least MinimumNumberOfCalls records and the failure rate or
\* the slow-call rate has reached its threshold; otherwise it stays Closed.
C4_ClosedToOpenIffThresholds ==
    [][ \A p \in Procs :
          (RecordStep(p) /\ state = Closed)
             => /\ state' = Open <=> OpenCondition
                /\ state' = Open => lastFailureTime' = now
                /\ state' # Open => state' = Closed /\ UNCHANGED lastFailureTime
                /\ Len(requests') < config.MinimumNumberOfCalls => state' = Closed
      ]_vars

\* Two calls were made and recorded with MinimumNumberOfCalls = 2: the first
\* could not open the breaker, the second did.
C4_Witness ==
    /\ config.MinimumNumberOfCalls = 2
    /\ calls = 2
    /\ Len(requests) = 2
    /\ requests[1].failed
    /\ state = Open
    /\ lastFailureTime = requests[2].executionTime

\* C5: a recording step that finds the state Half-Open and records a failed
\* or slow outcome moves the breaker to Open in that step, halfOpenCalls 0 and
\* lastFailureTime now; and as long as less than WaitDurationInOpenState has
\* elapsed since, the breaker stays Open with that stamp and every call to
\* Execute is rejected with the open error.
C5_HalfOpenFailureReopens ==
    [][ /\ \A p \in Procs :
             (RecordStep(p) /\ state = HalfOpen /\ (err[p] # Nil \/ isSlow[p]))
                => state' = Open /\ halfOpenCalls' = 0 /\ lastFailureTime' = now
        /\ (state = Open /\ Since(lastFailureTime) < Wait)
              => /\ state' = Open
                 /\ UNCHANGED lastFailureTime
                 /\ \A p \in Procs : ExecuteStep(p) => RejectedWith(p, ErrOpen)
      ]_vars

\* Only two calls were made. The first failed and opened the breaker
\* (MinimumNumberOfCalls = 1); the second, the probe, succeeded but was slow,
\* and the stamp is the time it was recorded at: it reopened the breaker.
C5_Witness ==
    /\ config.MinimumNumberOfCalls = 1
    /\ calls = 2
    /\ Len(requests) = 2
    /\ requests[1].failed
    /\ requests[2].slow /\ ~requests[2].failed
    /\ state = Open
    /\ halfOpenCalls = 0
    /\ lastFailureTime > requests[1].executionTime
    /\ lastFailureTime = requests[2].executionTime

\* The last n records of list r (all of them when it holds fewer).
LastOf(r, n) == SubSeq(r, IF Len(r) > n THEN Len(r) - n + 1 ELSE 1, Len(r))

\* The failed records of list r, and those slow and not failed, by position.
FailedIn(r) == {i \in DOMAIN r : r[i].failed}
SlowOnlyIn(r) == {i \in DOMAIN r : r[i].slow /\ ~r[i].failed}

\* C6: with a count-based window of size N >= 1 the window never holds more
\* than N records, in any state and interleaving: a recording step keeps the
\* newest N - 1 records and appends the new one behind them.
C6_CountWindowNeverExceedsSize ==
    [][ (config.SlidingWindowType = COUNT_BASED /\ config.SlidingWindowSize >= 1)
          => /\ Len(requests') <= config.SlidingWindowSize
             /\ \A p \in Procs :
                  RecordStep(p)
                     => requests' =
                           Append(LastOf(requests, config.SlidingWindowSize - 1),
                                  [failed |-> err[p] # Nil, slow |-> isSlow[p],
                                   executionTime |-> now])
      ]_vars

\* The window is full at size 2 and a third record has pushed the oldest out:
\* three calls were made, none rejected (the breaker was never Open).
C6_Witness ==
    /\ config.SlidingWindowType = COUNT_BASED
    /\ config.SlidingWindowSize = 2
    /\ Len(requests) = 2
    /\ calls = 3
    /\ lastFailureTime = 0
    /\ \A p \in Procs : pc[p] \in {"idle", "returned"}

\* C7: with a time-based window of duration D, when a recording step ends no
\* record of the window is older than D (now minus its executionTime).
C7_TimeWindowHoldsNoStaleRecord ==
    [][ \A p \in Procs :
          (RecordStep(p) /\ config.SlidingWindowType = TIME_BASED)
             => \A i \in DOMAIN requests' :
                   now' - requests'[i].executionTime <= config.SlidingWindowSize
      ]_vars

\* Three calls were recorded (none was rejected: the breaker was never Open)
\* and the window holds one record: two stale ones were pruned.
C7_Witness ==
    /\ config.SlidingWindowType = TIME_BASED
    /\ calls = 3
    /\ lastFailureTime = 0
    /\ \A p \in Procs : pc[p] \in {"idle", "returned"}
    /\ Len(requests) = 1

\* C8: failureCount is the number of failed records of the window and
\* slowCallCount the number of records that are slow and not failed (a failed
\* and slow record counts as a failure only); so their sum is at most the
\* window's length and neither is negative.
C8_CountersAreExact ==
    /\ failureCount = Cardinality(FailedIn(requests))
    /\ slowCallCount = Cardinality(SlowOnlyIn(requests))
    /\ failureCount + slowCallCount <= Len(requests)
    /\ failureCount >= 0
    /\ slowCallCount >= 0

\* The breaker opened on a window of two records (MinimumNumberOfCalls = 2)
\* and a third was recorded later: the count-based window of size 2 has
\* pruned one, and holds a failed and slow record beside a slow one that did
\* not fail.
C8_Witness ==
    /\ config.SlidingWindowType = COUNT_BASED
    /\ config.SlidingWindowSize = 2
    /\ config.MinimumNumberOfCalls = 2
    /\ lastFailureTime > 0
    /\ Len(requests) = 2
    /\ requests[2].executionTime > lastFailureTime
    /\ requests[1].failed /\ requests[1].slow
    /\ requests[2].slow /\ ~requests[2].failed
    /\ failureCount = 1
    /\ slowCallCount = 1

\* C9: an admitted call runs its action exactly once and Execute returns what
\* the action returned, nil or the action's own error, whatever the recording
\* does to the lifecycle state; a rejection error is returned only when the
\* action was not run.
C9_ReturnsTheActionsResult ==
    [][ \A p \in Procs :
          /\ (ExecuteStep(p) /\ Admitted(p)) => invoked'[p] = 0
          /\ (pc[p] = "action" /\ pc'[p] # "action")
                => invoked'[p] = 1 /\ pc'[p] = "recordResult"
          /\ RecordStep(p) => result'[p] = err[p] /\ invoked'[p] = 1
          /\ (pc'[p] = "returned" /\ result'[p] \in {ErrOpen, ErrHalfOpen})
                => invoked'[p] = 0
          /\ (pc'[p] = "returned" /\ invoked'[p] = 1)
                => result'[p] \in {Nil, ActionErr}
      ]_vars

\* The action's error came back from a call whose recording opened the
\* breaker.
C9_Witness ==
    /\ state = Open
    /\ lastFailureTime = now
    /\ requests # <<>>
    /\ requests[Len(requests)].failed
    /\ requests[Len(requests)].executionTime = now
    /\ \E p \in Procs :
         pc[p] = "returned" /\ result[p] = ActionErr /\ invoked[p] = 1

\* C10: cb.mu is never held by a caller whose action is running, nor by one
\* that has returned: it is held only inside recordResult. So while a caller's
\* action runs, however long, another caller's admission check and recording
\* are free to take cb.mu and run (unless a caller is held up inside
\* recordResult itself).
C10_LockNotHeldDuringAction ==
    \A p \in Procs :
        /\ pc[p] \in {"idle", "action", "recordResult", "returned"} => mu # p
        /\ (pc[p] = "action" /\ \A r \in Procs : pc[r] # "spinning")
              => \A q \in Procs \ {p} :
                    /\ (pc[q] = "idle" /\ calls < MaxCalls) => ENABLED Execute(q)
                    /\ pc[q] = "recordResult"
                          => ENABLED (recordResult(q) \/ recordResultSpin(q))

\* A caller's action has been running for a while, and since it started the
\* other caller's outcome was recorded and its call returned.
C10_Witness ==
    \E p, q \in Procs :
        /\ p # q
        /\ pc[p] = "action"
        /\ start[p] < now
        /\ pc[q] = "returned"
        /\ invoked[q] = 1
        /\ requests # <<>>
        /\ requests[Len(requests)].executionTime > start[p]


\* What halfOpenCalls may be in each lifecycle state.
HalfOpenCallsInRange ==
    /\ state \in {Closed, Open} => halfOpenCalls = 0
    /\ state = HalfOpen => 0 <= halfOpenCalls /\ halfOpenCalls <= Permitted

\* C11: halfOpenCalls is 0 whenever the state is Closed or Open and between 0
\* and Permitted whenever it is Half-Open. Every step into Half-Open resets
\* it: a recording step leaves it 0, an admission check leaves it at the one
\* call it admits after the reset (0 when it rejects). Every step out of
\* Half-Open leaves it 0.
C11_HalfOpenCallsResetOnTransitions ==
    /\ HalfOpenCallsInRange
    /\ [][ /\ HalfOpenCallsInRange'
           /\ (state # HalfOpen /\ state' = HalfOpen)
                 => halfOpenCalls' =
                       IF \E p \in Procs : ExecuteStep(p) /\ Admitted(p)
                       THEN 1 ELSE 0
           /\ (state = HalfOpen /\ state' # HalfOpen) => halfOpenCalls' = 0
         ]_vars

\* Only two calls were made. The first failed and opened the breaker; the
\* second was admitted as a probe (the counter went to 1) and failed: the
\* breaker is Open again, stamped anew, and the counter is back to 0.
C11_Witness ==
    /\ Permitted >= 1
    /\ config.MinimumNumberOfCalls = 1
    /\ calls = 2
    /\ state = Open
    /\ halfOpenCalls = 0
    /\ Len(requests) = 2
    /\ requests[1].failed
    /\ requests[2].failed
    /\ lastFailureTime = requests[2].executionTime
    /\ lastFailureTime > requests[1].executionTime

\* Caller q's call is running (admitted, its outcome not yet recorded).
InFlight(q) == pc[q] \in {"action", "recordResult"}

\* C12: a recording step closes a Half-Open breaker only when the outcome it
\* records is good and, with it, all Permitted calls admitted in the episode
\* have completed: Permitted calls were admitted and no other of them is still
\* running. (The probes that completed earlier in a running episode all
\* passed: a failed or slow one would have ended the episode.)
C12_ClosesOnlyWhenAllProbesPassed ==
    [][ \A p \in Procs :
          (RecordStep(p) /\ state = HalfOpen /\ state' = Closed)
             => /\ err[p] = Nil /\ ~isSlow[p]
                /\ episodeAdmitted = Permitted
                /\ \A q \in Procs \ {p} : ~(probe[q] /\ InFlight(q))
      ]_vars

\* The breaker has closed, halfOpenCalls is back to 0 and only three calls
\* were made, yet a call admitted as a probe of that episode is still running
\* (it was admitted after the opening was stamped and no later call was
\* started).
C12_Witness ==
    /\ state = Closed
    /\ lastFailureTime > 0
    /\ calls = 3
    /\ Permitted = 2
    /\ \E p, q \in Procs :
         /\ p # q
         /\ pc[p] = "returned" /\ result[p] = Nil /\ invoked[p] = 1
         /\ pc[q] = "action"
         /\ start[q] > lastFailureTime

\* List r without its oldest records, those observed at or before cutoff, up
\* to the first one observed later.
RECURSIVE PrunedAtOrBefore(_, _)
PrunedAtOrBefore(r, cutoff) ==
    IF r # <<>> /\ Head(r).executionTime <= cutoff
    THEN PrunedAtOrBefore(Tail(r), cutoff)
    ELSE r

\* The same, removing only the records observed strictly before cutoff.
RECURSIVE PrunedBefore(_, _)
PrunedBefore(r, cutoff) ==
    IF r # <<>> /\ Head(r).executionTime < cutoff
    THEN PrunedBefore(Tail(r), cutoff)
    ELSE r

\* The record a recording step of caller p appends.
NewRecord(p) ==
    [failed |-> err[p] # Nil, slow |-> isSlow[p], executionTime |-> now]

\* C13 as stated: a recording step on a time-based window of duration D
\* removes the oldest records observed at or before now - D, one observed at
\* exactly now - D included, stops at the first later one, and appends the
\* new record.
C13_PrunesAtOrBeforeCutoff ==
    [][ \A p \in Procs :
          (RecordStep(p) /\ config.SlidingWindowType = TIME_BASED)
             => requests' =
                   Append(PrunedAtOrBefore(requests, now - config.SlidingWindowSize),
                          NewRecord(p))
      ]_vars

\* C13, amended: the records removed are those observed strictly before
\* now - D; one observed at exactly now - D stays in the window.
C13_PrunesBeforeCutoff ==
    [][ \A p \in Procs :
          (RecordStep(p) /\ config.SlidingWindowType = TIME_BASED)
             => requests' =
                   Append(PrunedBefore(requests, now - config.SlidingWindowSize),
                          NewRecord(p))
      ]_vars

\* Three calls were recorded at three instants on a window of duration 1 (the
\* breaker never opened, so none was rejected): the third recording removed
\* the first record and kept the second, observed at exactly now - 1.
C13_Witness ==
    /\ config.SlidingWindowType = TIME_BASED
    /\ config.SlidingWindowSize = 1
    /\ calls = 3
    /\ lastFailureTime = 0
    /\ \A p \in Procs : pc[p] \in {"idle", "returned"}
    /\ Len(requests) = 2
    /\ requests[1].executionTime = now - 1
    /\ requests[2].executionTime = now

\* The edges of the lifecycle.
Edges == {<<Closed, Open>>, <<Open, HalfOpen>>, <<HalfOpen, Open>>,
          <<HalfOpen, Closed>>}

\* C14: the state changes only along Closed -> Open, Open -> Half-Open,
\* Half-Open -> Open and Half-Open -> Closed, one edge a step;
\* lastFailureTime is the time of the last step into Open; and an admission
\* check or a recording step that finds the state Open moves it to Half-Open
\* if and only if at least WaitDurationInOpenState has elapsed since then.
\* The move resets halfOpenCalls: the recording step leaves it 0, the
\* admission check leaves it at the call it admits after the reset.
C14_EdgesAndOpenToHalfOpen ==
    [][ /\ state' # state => <<state, state'>> \in Edges
        /\ (state # Open /\ state' = Open) => lastFailureTime' = now
        /\ (state = Open /\ state' = Open) => UNCHANGED lastFailureTime
        /\ \A p \in Procs :
             (ExecuteStep(p) /\ state = Open)
                => /\ state' = HalfOpen <=> Since(lastFailureTime) >= Wait
                   /\ state' # HalfOpen => state' = Open
                   /\ state' = HalfOpen
                         => halfOpenCalls' = IF Admitted(p) THEN 1 ELSE 0
        /\ \A p \in Procs :
             (RecordStep(p) /\ state = Open)
                => /\ state' = HalfOpen <=> Since(lastFailureTime) >= Wait
                   /\ state' # HalfOpen => state' = Open
                   /\ state' = HalfOpen => halfOpenCalls' = 0
      ]_vars

\* A recording step found the breaker Open with the wait elapsed and moved it
\* to Half-Open: no probe has been admitted, the caller has its action's
\* result, and its record was appended to the window at that instant.
C14_Witness ==
    /\ Permitted >= 1
    /\ state = HalfOpen
    /\ halfOpenCalls = 0
    /\ requests # <<>>
    /\ requests[Len(requests)].executionTime >= lastFailureTime + Wait
    /\ \E p \in Procs : pc[p] = "returned" /\ invoked[p] = 1

\* Caller p's recording step closes the Half-Open breaker.
ClosingStep(p) == RecordStep(p) /\ state = HalfOpen /\ state' = Closed

\* The records the pruning policy keeps when an outcome is recorded.
KeptByPruning ==
    IF config.SlidingWindowType = COUNT_BASED
    THEN LastOf(requests, config.SlidingWindowSize - 1)
    ELSE PrunedBefore(requests, now - config.SlidingWindowSize)

\* C15: the recording step that closes the breaker leaves the window and the
\* two counters exactly as the window update (prune, then append) made them:
\* every record the pruning policy keeps is still there, behind it the new
\* one. Beyond the window update the step changes the state and halfOpenCalls
\* only.
C15_ClosingKeepsTheWindow ==
    [][ \A p \in Procs :
          ClosingStep(p)
             => LET w == addRequest(Window, config, err[p] # Nil, isSlow[p], now)
                IN  /\ requests' = w.requests
                    /\ failureCount' = w.failureCount
                    /\ slowCallCount' = w.slowCallCount
                    /\ requests' = Append(KeptByPruning, NewRecord(p))
                    /\ halfOpenCalls' = 0
                    /\ UNCHANGED <<lastFailureTime, config>>
      ]_vars

\* Two calls were made: the first failed and opened the breaker, the second,
\* the probe, passed and closed it. The failure recorded before the recovery
\* is still in the window and still counted.
C15_Witness ==
    /\ calls = 2
    /\ state = Closed
    /\ halfOpenCalls = 0
    /\ lastFailureTime > 0
    /\ Len(requests) = 2
    /\ requests[1].failed
    /\ requests[1].executionTime = lastFailureTime
    /\ ~requests[2].failed /\ ~requests[2].slow
    /\ failureCount = 1

\* Caller p's recording step finds the breaker Closed and records an outcome
\* that neither failed nor was slow.
GoodRecordWhileClosed(p) ==
    RecordStep(p) /\ state = Closed /\ err[p] = Nil /\ ~isSlow[p]

\* C16 as stated: recording an outcome that neither failed nor was slow
\* while the breaker is Closed leaves it Closed.
C16_GoodCallNeverOpens ==
    [][ \A p \in Procs : GoodRecordWhileClosed(p) => state' = Closed ]_vars

\* C16, amended: such a record counts toward neither rate, and the step opens
\* the breaker exactly when the window it leaves (pruned, the good record
\* appended) holds at least MinimumNumberOfCalls records and a rate at its
\* threshold, that is, on the strength of failed or slow records still in the
\* window; with positive thresholds it leaves the breaker Closed when the
\* window holds no such record.
C16_GoodCallOpensOnlyOnEarlierRecords ==
    [][ \A p \in Procs :
          GoodRecordWhileClosed(p)
             => /\ failureCount' <= failureCount
                /\ slowCallCount' <= slowCallCount
                /\ state' = Open <=> OpenCondition
                /\ state' # Open => state' = Closed
                /\ ( /\ failureCount' = 0 /\ slowCallCount' = 0
                     /\ config.FailureRateThreshold > 0
                     /\ config.SlowCallRateThreshold > 0 ) => state' = Closed
      ]_vars

\* Two calls were made with MinimumNumberOfCalls = 2. The first failed (one
\* record: the breaker stayed Closed); the second passed, and its recording
\* opened the breaker: the stamp is the instant of the good record.
C16_Witness ==
    /\ config.MinimumNumberOfCalls = 2
    /\ calls = 2
    /\ Len(requests) = 2
    /\ requests[1].failed
    /\ ~requests[2].failed /\ ~requests[2].slow
    /\ state = Open
    /\ lastFailureTime = requests[2].executionTime

\* C17: with a quota of at least 1, whenever the breaker is Half-Open with
\* its quota used up it eventually leaves Half-Open (to Closed or to Open),
\* provided every action returns and no caller waits for the mutex forever.
C17_ExhaustedHalfOpenIsLeft ==
    (state = HalfOpen /\ Permitted >= 1 /\ halfOpenCalls = Permitted)
        ~> (state \in {Closed, Open})

\* The quota of 2 is used up, one probe has passed without closing the
\* breaker (it was recorded when the count was still 1), and the other's
\* action has returned: its recording is what will move the breaker.
C17_Witness ==
    /\ Permitted = 2
    /\ state = HalfOpen
    /\ halfOpenCalls = 2
    /\ \E p, q \in Procs :
         /\ p # q
         /\ pc[p] = "returned" /\ result[p] = Nil /\ invoked[p] = 1
         /\ pc[q] = "recordResult" /\ probe[q]

\* C18: a recording step, once begun, ends with Execute returning and cb.mu
\* released, whatever the window holds and for every SlidingWindowSize >= 0
\* under either pruning strategy: no caller is left inside recordResult
\* holding the mutex.
C18_RecordingTerminates ==
    [][ \A p \in Procs :
          (pc[p] = "recordResult" /\ pc'[p] # "recordResult")
             => pc'[p] = "returned" /\ mu' = NoOne
      ]_vars

\* With a count-based window of size 0 a caller is inside the pruning loop on
\* an empty list, holding cb.mu, and the other caller, whose action has
\* returned, waits for the mutex.
C18_Witness ==
    /\ config.SlidingWindowType = COUNT_BASED
    /\ config.SlidingWindowSize = 0
    /\ requests = <<>>
    /\ \E p, q \in Procs :
         /\ pc[p] = "spinning" /\ mu = p
         /\ pc[q] = "recordResult"
         /\ ~ENABLED recordResult(q)
         /\ ~ENABLED recordResultSpin(q)

\* What C19 asks of the rate computed for window w from counter count: a
\* divisor that is not 0, the value 0 on the empty window and
\* 100 * count / length otherwise, and a value within [0, 100].
RateIsSound(rate, count, w) ==
    /\ rate.den > 0
    /\ Len(w.requests) = 0 => rate.num = 0
    /\ Len(w.requests) > 0 => rate.num * Len(w.requests) = 100 * count * rate.den
    /\ 0 <= rate.num
    /\ rate.num <= 100 * rate.den

\* C19: in every reachable state the failure rate and the slow-call rate of
\* the window, and those of the window as pruning at this instant would leave
\* it (also when pruning empties it), are computed without a division by
\* zero: 0 on the empty window, 100 * counter / length otherwise, and within
\* [0, 100].
C19_RatesNeverDivideByZero ==
    LET pruned == cleanupOldRequests(Window, config, now) IN
    /\ RateIsSound(getFailureRate(Window), failureCount, Window)
    /\ RateIsSound(getSlowCallRate(Window), slowCallCount, Window)
    /\ RateIsSound(getFailureRate(pruned), pruned.failureCount, pruned)
    /\ RateIsSound(getSlowCallRate(pruned), pruned.slowCallCount, pruned)

\* A caller is about to record on a time-based window whose records, a
\* failed one among them, have all expired: pruning empties the window and
\* takes the failure off the counter, and the rate of what is left is 0.
C19_Witness ==
    /\ config.SlidingWindowType = TIME_BASED
    /\ requests # <<>>
    /\ failureCount >= 1
    /\ \E p \in Procs : pc[p] = "recordResult"
    /\ LET pruned == cleanupOldRequests(Window, config, now) IN
       /\ pruned.requests = <<>>
       /\ pruned.failureCount = 0
       /\ getFailureRate(pruned).num = 0

=============================================================================
